---- MODULE Spec2Model ----
(***************************************************************************)
(* A model of two programs of the scholarphi data-processing code:         *)
(*   - UploadEntitiesCommand.load and the command class built by           *)
(*     make_upload_entities_command (common/commands/upload_entities.py);  *)
(*   - BibitemExtractor and its helpers (explanations/scrape_tex.py).      *)
(* A behaviour runs one of the two programs; the variable 'component'      *)
(* says which.  The variables of the other program keep their initial      *)
(* values.                                                                 *)
(***************************************************************************)
EXTENDS Integers, Sequences, FiniteSets, TLC

\* ------------------------------------------------------------------ bounds
MaxPapers == 2
MaxEntities == 2
MaxLocations == 2
MaxChildren == 3
MaxCalls == 2

\* ------------------------------------------------------- values and inputs
None == "None"
NoFile == "NoFile"

SeqUpTo(S, n) == UNION {[1..k -> S] : k \in 0..n}

RECURSIVE Concat(_)
Concat(ss) == IF ss = <<>> THEN <<>> ELSE Head(ss) \o Concat(Tail(ss))

PaperIds == {"1601.00978", "1602.00001"}
S2Ids == {"s2-a"}
Ids == {"e1", "e2"}
TexPaths == {"p.tex", "q.tex"}
FileNames == {"entities-terms.csv", "entities-symbols.csv"}

\* The generic schema and the schemas that extend it.
SerializableEntity == "SerializableEntity"
EntityTypes == {"Term", "Symbol"}

\* A row of an entities*.csv file, and the content of a paper's entity directory:
\* the files glob finds (distinct names, any order), each with its rows.
EntityRows == [id_ : Ids, tex_path : TexPaths]
EntityFiles == [name : FileNames, rows : SeqUpTo(EntityRows, MaxEntities)]
EntityDirs ==
    {d \in SeqUpTo(EntityFiles, Cardinality(FileNames)) :
        /\ \A a, b \in 1..Len(d) : a # b => d[a].name # d[b].name
        /\ Len(Concat([a \in 1..Len(d) |-> d[a].rows])) <= MaxEntities}

\* A row of entity_locations.csv: the key of an entity and a bounding box.  The
\* rows of one file have different boxes.
LocationKeys == [entity_id : Ids, tex_path : TexPaths]
LocationFiles ==
    {[j \in 1..Len(ks) |->
        [entity_id |-> ks[j].entity_id, tex_path |-> ks[j].tex_path, box |-> j]] :
     ks \in SeqUpTo(LocationKeys, MaxLocations)}

\* The DetectedEntityType argument of make_upload_entities_command: nothing,
\* one schema, or a dictionary from file names to schemas.
\* The dictionaries are the parts of one dictionary that gives every file name
\* a schema of its own.
NoDict == [f \in {} |-> None]
FullDict == ("entities-terms.csv" :> "Term") @@ ("entities-symbols.csv" :> "Symbol")
DetectedEntityTypeArgs ==
    {[kind |-> "none", type |-> None, dict |-> NoDict]}
    \cup {[kind |-> "type", type |-> "Term", dict |-> NoDict]}
    \cup {[kind |-> "dict", type |-> None, dict |-> [f \in S |-> FullDict[f]]] :
            S \in SUBSET FileNames}

VARIABLES
    component,            \* "upload" or "extract": the program this behaviour runs
    DetectedEntityType,   \* closure variable of make_upload_entities_command
    arxiv_ids,            \* self.arxiv_ids
    pc,                   \* position of the generator 'load'
    i,                    \* position of the loop over arxiv_ids (1-based)
    s2_id,                \* local of load
    entities_paths,       \* the list glob.glob returned
    k,                    \* position of the loop over entities_paths (1-based)
    entity_type,          \* value of the last get_detected_entity_type call
    entities,             \* local of load
    hue_location_infos,   \* local of load
    localized_enitites,   \* local of load
    item,                 \* the PaperProcessingResult the consumer holds (<<>>: none)
    yielded,              \* (arxiv_id, s2_id) of every result yielded so far
    log,                  \* logging.warning records
    s2_files,             \* the file system: s2_id file of the papers read so far
    entity_files,         \* the file system: entity directories read so far
    location_files,       \* the file system: entity_locations.csv files read so far
    joins,                \* history: the first join of each paper still to be visited again
    tex,                  \* the argument of the extract call in progress
    xpc,                  \* position inside BibitemExtractor.extract
    m,                    \* position of the loop over soup.find_all("bibitem")
    parent,               \* the parent whose contents are scanned
    c,                    \* position of the loop over parent.contents
    current_bibitem_label,\* self.current_bibitem_label
    bibitem_text,         \* self.bibitem_text
    nodes_scanned,        \* self.nodes_scanned
    bibitems,             \* self.bibitems: a reference into 'heap'
    heap,                 \* the list objects extract has created
    results               \* per finished call: its argument and what it returned

uploadVars ==
    <<DetectedEntityType, arxiv_ids, pc, i, s2_id, entities_paths, k, entity_type,
      entities, hue_location_infos, localized_enitites, item, yielded, log,
      s2_files, entity_files, location_files, joins>>

extractVars ==
    <<tex, xpc, m, parent, c, current_bibitem_label, bibitem_text, nodes_scanned,
      bibitems, heap, results>>

vars == <<component, uploadVars, extractVars>>

\* ------------------------------------------------- upload_entities.py

\* UploadEntitiesCommand.get_detected_entity_type: the generic schema, no log.
Base_get_detected_entity_type(entity_filename) ==
    [type |-> SerializableEntity, warnings |-> <<>>]

NoEntityTypeWarning(entity_filename) ==
    [msg |-> "No entity type specified for file", arg |-> entity_filename]

\* Mutant: the KeyError handler falls back to the generic schema without logging.
get_detected_entity_type_Silent(arg, entity_filename) ==
    IF arg.kind = "type" THEN [type |-> arg.type, warnings |-> <<>>]
    ELSE IF arg.kind = "dict" /\ entity_filename \in DOMAIN arg.dict
    THEN [type |-> arg.dict[entity_filename], warnings |-> <<>>]
    ELSE [type |-> SerializableEntity, warnings |-> <<>>]

\* Mutant: a dictionary is answered with one of its schemas whatever the file name.
get_detected_entity_type_AnyKey(arg, entity_filename) ==
    IF arg.kind = "none" THEN Base_get_detected_entity_type(entity_filename)
    ELSE IF arg.kind = "dict"
    THEN IF DOMAIN arg.dict # {}
         THEN [type |-> arg.dict[CHOOSE f \in DOMAIN arg.dict : TRUE], warnings |-> <<>>]
         ELSE [type |-> SerializableEntity,
               warnings |-> <<NoEntityTypeWarning(entity_filename)>>]
    ELSE [type |-> arg.type, warnings |-> <<>>]

\* C.get_detected_entity_type: the schema for a file name and what it logs.
get_detected_entity_type(arg, entity_filename) ==
    IF entity_filename = None \/ arg.kind = "none"
    THEN Base_get_detected_entity_type(entity_filename)
    ELSE IF arg.kind = "dict"
    THEN IF entity_filename \in DOMAIN arg.dict
         THEN [type |-> arg.dict[entity_filename], warnings |-> <<>>]
         ELSE [type |-> SerializableEntity,
               warnings |-> <<NoEntityTypeWarning(entity_filename)>>]
    ELSE [type |-> arg.type, warnings |-> <<>>]

\* file_utils.load_from_csv(path, Type): one object of the schema per row.
load_from_csv(rows, type) ==
    [r \in 1..Len(rows) |->
        [id_ |-> rows[r].id_, tex_path |-> rows[r].tex_path, type |-> type]]

\* Mutant: the path is not compared.
MatchesIdOnly(h, entity) == h.entity_id = entity.id_

\* Line 85: the condition under which a location belongs to an entity.
Matches(h, entity) ==
    h.entity_id = entity.id_ /\ h.tex_path = entity.tex_path

\* Lines 83-86: the inner loop over hue_location_infos.
RECURSIVE MatchingLocations(_, _)
MatchingLocations(entity, hs) ==
    IF hs = <<>> THEN <<>>
    ELSE (IF Matches(Head(hs), entity) THEN <<Head(hs)>> ELSE <<>>)
         \o MatchingLocations(entity, Tail(hs))

EntityAndLocation(entity, locations) ==
    [entity |-> entity, locations |-> locations]

\* Mutant: an entity whose (id, tex_path) was met before is passed over, as a
\* grouping by key would do.
RECURSIVE LocalizeEntitiesByKey(_, _, _)
LocalizeEntitiesByKey(acc, es, hs) ==
    IF es = <<>> THEN acc
    ELSE IF \E j \in 1..Len(acc) : /\ acc[j].entity.id_ = Head(es).id_
                                    /\ acc[j].entity.tex_path = Head(es).tex_path
    THEN LocalizeEntitiesByKey(acc, Tail(es), hs)
    ELSE LocalizeEntitiesByKey(
            Append(acc, EntityAndLocation(Head(es), MatchingLocations(Head(es), hs))),
            Tail(es), hs)

\* Lines 81-88: the outer loop over entities, appending to 'acc'.
RECURSIVE LocalizeEntities(_, _, _)
LocalizeEntities(acc, es, hs) ==
    IF es = <<>> THEN acc
    ELSE LocalizeEntities(
            Append(acc, EntityAndLocation(Head(es), MatchingLocations(Head(es), hs))),
            Tail(es), hs)

PaperProcessingResult(a, s, l) ==
    [arxiv_id |-> a, s2_id |-> s, localized_entities |-> l]

SkipWarning(a) == [msg |-> "Could not find S2 ID file", arg |-> a]

\* Line 49: the test for the s2_id file.
S2IdMissing(f) == f = NoFile

\* Mutant: 'break' in place of 'continue'.
BreakAt(n) == Len(arxiv_ids) + 1

\* Line 51: 'continue': the loop goes on with the paper after position n.
ContinueAt(n) == n + 1

\* The papers the loop has still to visit after position n.
Upcoming(n) == {arxiv_ids[j] : j \in (n + 1)..Len(arxiv_ids)}

Restrict(f, S) == [x \in (DOMAIN f) \cap S |-> f[x]]

\* Lines 43-53: the head of the loop over arxiv_ids, entered at the first call of
\* next() and whenever the consumer resumes the generator after a yield.  A paper
\* without an s2_id file is logged and passed over (line 51).  The locals of the
\* iteration before, and the files of papers the loop will not visit again, are
\* dead here and are dropped.
NextPaper ==
    /\ component = "upload"
    /\ pc \in {"loop", "yielded"}
    /\ item' = <<>>
    /\ entities' = <<>> /\ hue_location_infos' = <<>> /\ localized_enitites' = <<>>
    /\ entities_paths' = <<>> /\ k' = 1 /\ entity_type' = None
    /\ LET n == IF pc = "yielded" THEN i + 1 ELSE i
           keep == Upcoming(n - 1)
       IN /\ entity_files' = Restrict(entity_files, keep)
          /\ location_files' = Restrict(location_files, keep)
          /\ joins' = Restrict(joins, keep)
          /\ IF n > Len(arxiv_ids)
             THEN /\ pc' = "done"
                  /\ i' = n
                  /\ UNCHANGED <<s2_id, log, s2_files>>
             ELSE LET a == arxiv_ids[n] IN
                  \E f \in (IF a \in DOMAIN s2_files THEN {s2_files[a]}
                            ELSE S2Ids \cup {NoFile}) :
                      /\ s2_files' = (a :> f) @@ s2_files
                      /\ IF S2IdMissing(f)
                         THEN /\ log' = Append(log, SkipWarning(a))
                              /\ pc' = (IF ContinueAt(n) > Len(arxiv_ids)
                                        THEN "done" ELSE "loop")
                              /\ i' = ContinueAt(n)
                              /\ s2_id' = None
                         ELSE /\ s2_id' = f
                              /\ pc' = "glob"
                              /\ i' = n
                              /\ UNCHANGED log
    /\ UNCHANGED <<component, DetectedEntityType, arxiv_ids, yielded, extractVars>>

\* Lines 58-62: the entity directory is globbed.
GlobEntities ==
    /\ component = "upload"
    /\ pc = "glob"
    /\ LET a == arxiv_ids[i] IN
       \E d \in (IF a \in DOMAIN entity_files THEN {entity_files[a]} ELSE EntityDirs) :
          /\ entity_files' = (a :> d) @@ entity_files
          /\ entities_paths' = [j \in 1..Len(d) |-> d[j].name]
    /\ entities' = <<>>
    /\ k' = 1
    /\ pc' = "entities"
    /\ UNCHANGED <<extractVars, component, DetectedEntityType, arxiv_ids, i, s2_id, entity_type,
                   hue_location_infos, localized_enitites, item, yielded, log,
                   s2_files, location_files, joins>>

\* Lines 62-68: one iteration of the loop over the entity files.
LoadEntitiesFile ==
    /\ component = "upload"
    /\ pc = "entities"
    /\ k <= Len(entities_paths)
    /\ LET file == entity_files[arxiv_ids[i]][k]
           res == get_detected_entity_type(DetectedEntityType, entities_paths[k])
       IN /\ entity_type' = res.type
          /\ log' = log \o res.warnings
          /\ entities' = entities \o load_from_csv(file.rows, res.type)
    /\ k' = k + 1
    /\ UNCHANGED <<extractVars, component, DetectedEntityType, arxiv_ids, pc, i, s2_id,
                   entities_paths, hue_location_infos, localized_enitites, item,
                   yielded, s2_files, entity_files, location_files, joins>>

\* Lines 70-77: the locations file is read.
LoadLocations ==
    /\ component = "upload"
    /\ pc = "entities"
    /\ k > Len(entities_paths)
    /\ LET a == arxiv_ids[i] IN
       \E hs \in (IF a \in DOMAIN location_files THEN {location_files[a]}
                  ELSE LocationFiles) :
          /\ location_files' = (a :> hs) @@ location_files
          /\ hue_location_infos' = hs
    /\ pc' = "join"
    /\ UNCHANGED <<extractVars, component, DetectedEntityType, arxiv_ids, i, s2_id, entities_paths,
                   k, entity_type, entities, localized_enitites, item, yielded, log,
                   s2_files, entity_files, joins>>

\* Lines 79-92: the join; the result is handed to the consumer and the generator
\* suspends at the yield.
JoinAndYield ==
    /\ component = "upload"
    /\ pc = "join"
    /\ localized_enitites' = LocalizeEntities(<<>>, entities, hue_location_infos)
    /\ item' = <<PaperProcessingResult(arxiv_ids[i], s2_id, localized_enitites')>>
    /\ yielded' = Append(yielded, [arxiv_id |-> arxiv_ids[i], s2_id |-> s2_id])
    /\ joins' = IF arxiv_ids[i] \in DOMAIN joins THEN joins
                 ELSE (arxiv_ids[i] :> [entities |-> entities,
                                        hue_location_infos |-> hue_location_infos,
                                        localized_enitites |-> localized_enitites'])
                      @@ joins
    /\ pc' = "yielded"
    /\ UNCHANGED <<extractVars, component, DetectedEntityType, arxiv_ids, i, s2_id, entities_paths,
                   k, entity_type, entities, hue_location_infos, log, s2_files,
                   entity_files, location_files>>


\* ------------------------------------------------------- scrape_tex.py

\* Characters of a text; a text is a sequence of characters.
SP == " "
NL == "\n"
Whitespace == {SP, NL}
IsSpace(ch) == ch \in Whitespace

\* The .string of a node that has none.
NoString == <<None>>

RArg(v) == [type |-> "RArg", value |-> v]
OArg(v) == [type |-> "OArg", value |-> v]

\* The arguments of the \bibitem commands of the documents: a required argument, an
\* optional argument before the required one, and no required argument at all.
MarkerArgs == {<<RArg("a")>>, <<OArg("o"), RArg("b")>>, <<OArg("o")>>}

\* The texts of the text tokens: plain; with leading and trailing whitespace;
\* with a paragraph break (a blank line that holds a space) between two words.
TokenTexts == {<<"x">>, <<SP, "y", NL>>, <<"z", NL, SP, NL, "w">>}

Marker(args) == [kind |-> "bibitem", args |-> args, text |-> <<>>]
Token(text) == [kind |-> "token", args |-> <<>>, text |-> text]
Node(string) == [kind |-> "node", args |-> <<>>, text |-> string]

Leaves == {Marker(a) : a \in MarkerArgs} \cup {Token(t) : t \in TokenTexts}

\* A document is the sequence of its leaves in document order, each with the
\* block that holds it: block 0 is the top level, and a maximal run of leaves of
\* one other block is one nested node (a group or an environment) of the top level.
Blocks == {0, 1}
Entries == [leaf : Leaves, block : Blocks]
Docs == SeqUpTo(Entries, MaxChildren)

\* What TexSoup raises on an input it cannot parse (the two that parse_tex catches).
ParserFailures == {"TypeError", "EOFError"}

ParsedTex(d) == [ok |-> TRUE, failure |-> None, body |-> d]
BadTex(f) == [ok |-> FALSE, failure |-> f, body |-> <<>>]
Texs == {ParsedTex(d) : d \in Docs} \cup {BadTex(f) : f \in ParserFailures}

\* The arguments of the calls that follow the first one on the same extractor:
\* the same text again, a text that does not parse, or another document.
OtherTexs == {BadTex("EOFError"), ParsedTex(<<[leaf |-> Marker(<<RArg("b")>>), block |-> 0]>>)}

Min(S) == CHOOSE x \in S : \A y \in S : x <= y

\* The first position of the run of block-mates that holds position j.
RunStart(d, j) ==
    Min({r \in 1..j : \A q \in r..j : d[q].block = d[j].block})

RunEnd(d, j) ==
    CHOOSE e \in j..Len(d) :
        /\ \A q \in j..e : d[q].block = d[j].block
        /\ (e = Len(d) \/ d[e + 1].block # d[j].block)

\* node.parent: the top level (0) or the nested node, named by its first position.
ParentOf(d, j) == IF d[j].block = 0 THEN 0 ELSE RunStart(d, j)

\* node.string: the text of a node whose content is one text token, else None.
StringOf(d, r) ==
    IF RunEnd(d, r) = r /\ d[r].leaf.kind = "token" THEN d[r].leaf.text ELSE NoString

\* parent.contents: the children of a parent in document order.
RECURSIVE TopContents(_, _)
TopContents(d, j) ==
    IF j > Len(d) THEN <<>>
    ELSE IF d[j].block = 0 THEN <<d[j].leaf>> \o TopContents(d, j + 1)
    ELSE <<Node(StringOf(d, j))>> \o TopContents(d, RunEnd(d, j) + 1)

Contents(d, p) ==
    IF p = 0 THEN TopContents(d, 1)
    ELSE [q \in 1..(RunEnd(d, p) - p + 1) |-> d[p + q - 1].leaf]

\* soup.find_all("bibitem"): the positions of the markers, in document order.
RECURSIVE find_all(_, _)
find_all(d, j) ==
    IF j > Len(d) THEN <<>>
    ELSE (IF d[j].leaf.kind = "bibitem" THEN <<j>> ELSE <<>>) \o find_all(d, j + 1)

\* Mutant: the parser's exception leaves parse_tex as it is, not wrapped.
parse_tex_Unwrapped(t) ==
    IF t.ok THEN [raised |-> None, msg |-> None, soup |-> t.body]
    ELSE [raised |-> t.failure, msg |-> t.failure, soup |-> <<>>]

\* parse_tex: the soup, or the TexSoupParseError that wraps the parser's failure.
parse_tex(t) ==
    IF t.ok THEN [raised |-> None, msg |-> None, soup |-> t.body]
    ELSE [raised |-> "TexSoupParseError", msg |-> t.failure, soup |-> <<>>]

\* Mutant: the first argument is taken, required or not.
extract_label_FirstArg(args) ==
    IF args = <<>> THEN None ELSE Head(args).value

\* _extract_label: the value of the first required argument.
RECURSIVE extract_label(_)
extract_label(args) ==
    IF args = <<>> THEN None
    ELSE IF Head(args).type = "RArg" THEN Head(args).value
    ELSE extract_label(Tail(args))

\* re.sub(r"\s+", " ", text)
RECURSIVE DropSpaces(_)
DropSpaces(t) ==
    IF t # <<>> /\ IsSpace(Head(t)) THEN DropSpaces(Tail(t)) ELSE t

RECURSIVE CollapseSpaces(_)
CollapseSpaces(t) ==
    IF t = <<>> THEN <<>>
    ELSE IF IsSpace(Head(t)) THEN <<SP>> \o CollapseSpaces(DropSpaces(Tail(t)))
    ELSE <<Head(t)>> \o CollapseSpaces(Tail(t))

\* str.strip()
RECURSIVE DropTrailingSpaces(_)
DropTrailingSpaces(t) ==
    IF t # <<>> /\ IsSpace(t[Len(t)])
    THEN DropTrailingSpaces(SubSeq(t, 1, Len(t) - 1)) ELSE t

Strip(t) == DropTrailingSpaces(DropSpaces(t))

\* Mutant: the text is stripped and its inner whitespace is left alone.
clean_bibitem_text_StripOnly(text) == Strip(text)

\* _clean_bibitem_text
clean_bibitem_text(text) == Strip(CollapseSpaces(text))

\* TEX_BREAK = r"\n\s*?\n": the positions at which a match of it starts.
BreakStarts(text) ==
    {a \in 1..Len(text) :
        /\ text[a] = NL
        /\ \E b \in (a + 1)..Len(text) :
              /\ text[b] = NL
              /\ \A q \in (a + 1)..(b - 1) : IsSpace(text[q])}

\* _contains_break
contains_break(text) == BreakStarts(text) # {}

\* Mutant: the text is cut after the break, not before it.
get_text_before_break_Whole(text) == text

\* _get_text_before_break: re.split(TEX_BREAK, text, maxsplit=1)[0]
get_text_before_break(text) ==
    IF BreakStarts(text) = {} THEN text
    ELSE SubSeq(text, 1, Min(BreakStarts(text)) - 1)

Bibitem(key, text) == [key |-> key, text |-> text]

\* Mutant: the item is emitted and the label and the buffer are not reset.
finalize_bibitem_NoReset(label, text, items) ==
    [label |-> label,
     text |-> text,
     items |-> IF label # None
               THEN Append(items, Bibitem(label, clean_bibitem_text(text)))
               ELSE items]

\* _finalize_bibitem on an extractor whose fields are (label, text, items).
finalize_bibitem(label, text, items) ==
    [label |-> None,
     text |-> <<>>,
     items |-> IF label # None
               THEN Append(items, Bibitem(label, clean_bibitem_text(text)))
               ELSE items]

\* Mutant: the new label is taken and the open item is not finalized.
process_marker_NoFinalize(content, label, text, items) ==
    [label |-> extract_label(content.args), text |-> text, items |-> items]

\* Lines 56-62: a \bibitem node.
process_marker(content, label, text, items) ==
    LET st == IF label # None THEN finalize_bibitem(label, text, items)
              ELSE [label |-> label, text |-> text, items |-> items]
    IN [st EXCEPT !.label = extract_label(content.args)]

\* Lines 64-68: the text of a content that is not a \bibitem node.
content_text_of(content) ==
    IF content.kind = "node" /\ content.text # NoString THEN content.text
    ELSE IF content.kind = "token" THEN content.text
    ELSE NoString

\* Mutant: text is appended to the buffer whether or not a label is present.
process_text_Unguarded(content_text, label, text, items) ==
    IF content_text # NoString
    THEN IF contains_break(content_text)
         THEN finalize_bibitem(label, text \o get_text_before_break(content_text), items)
         ELSE [label |-> label, text |-> text \o content_text, items |-> items]
    ELSE [label |-> label, text |-> text, items |-> items]

\* Lines 70-76: text met with or without an open item.
process_text(content_text, label, text, items) ==
    IF label # None /\ content_text # NoString
    THEN IF contains_break(content_text)
         THEN finalize_bibitem(label, text \o get_text_before_break(content_text), items)
         ELSE [label |-> label, text |-> text \o content_text, items |-> items]
    ELSE [label |-> label, text |-> text, items |-> items]

\* _process_content
process_content(content, label, text, items) ==
    IF content.kind = "bibitem"
    THEN process_marker(content, label, text, items)
    ELSE process_text(content_text_of(content), label, text, items)

\* Mutant: the list of the call before is kept and appended to.
KeepItems(h, ref) == [heap |-> h, ref |-> ref]

\* Line 44: self.bibitems = []: a new list object, and the reference to it.
FreshItems(h, ref) == [heap |-> Append(h, <<>>), ref |-> Len(h) + 1]

\* Mutant: nodes compare by their place in the document, so that the nodes of a
\* later parse equal those of an earlier one.
NodeId_ByPlace(call, p) == <<1, p>>

\* The node objects of a parse are new objects: a node is named by the call that
\* parsed it and its place in the document.
NodeId(call, p) == <<call, p>>

CallNo == Len(results) + 1

\* Lines 43-45: extract is called; the list of items is a new list; the text is
\* parsed, and a text that does not parse ends the call with the error.
Extract ==
    /\ component = "extract"
    /\ xpc = "idle"
    /\ Len(results) < MaxCalls
    /\ \E t \in (IF results = <<>> THEN Texs
                 ELSE {results[Len(results)].tex} \cup OtherTexs) :
          /\ tex' = t
          /\ heap' = FreshItems(heap, bibitems).heap
          /\ bibitems' = FreshItems(heap, bibitems).ref
          /\ LET parsed == parse_tex(t) IN
             IF parsed.raised # None
             THEN /\ results' = Append(results,
                        [tex |-> t, raised |-> parsed.raised, msg |-> parsed.msg,
                         list |-> 0, items |-> <<>>])
                  /\ UNCHANGED xpc
             ELSE /\ xpc' = "find"
                  /\ UNCHANGED results
    /\ m' = 1
    /\ UNCHANGED <<parent, c, current_bibitem_label, bibitem_text, nodes_scanned>>
    /\ UNCHANGED <<component, uploadVars>>

\* Lines 46-49: the next marker of find_all and its parent.
FindNext ==
    /\ component = "extract"
    /\ xpc = "find"
    /\ m <= Len(find_all(tex.body, 1))
    /\ LET p == ParentOf(tex.body, find_all(tex.body, 1)[m]) IN
       IF NodeId(CallNo, p) \in nodes_scanned
       THEN /\ m' = m + 1
            /\ UNCHANGED <<xpc, parent, c, nodes_scanned>>
       ELSE /\ nodes_scanned' = nodes_scanned \cup {NodeId(CallNo, p)}
            /\ parent' = p
            /\ c' = 1
            /\ xpc' = "scan"
            /\ UNCHANGED m
    /\ UNCHANGED <<tex, current_bibitem_label, bibitem_text, bibitems, heap, results>>
    /\ UNCHANGED <<component, uploadVars>>

\* Lines 50-51: one content of the parent goes through _process_content; after
\* the last one the loop over the markers goes on.
ProcessContent ==
    /\ component = "extract"
    /\ xpc = "scan"
    /\ LET contents == Contents(tex.body, parent)
           st == process_content(contents[c], current_bibitem_label, bibitem_text,
                                 heap[bibitems])
       IN /\ current_bibitem_label' = st.label
          /\ bibitem_text' = st.text
          /\ heap' = [heap EXCEPT ![bibitems] = st.items]
          /\ IF c < Len(contents)
             THEN /\ c' = c + 1
                  /\ UNCHANGED <<xpc, m>>
             ELSE /\ c' = 1
                  /\ m' = m + 1
                  /\ xpc' = "find"
    /\ UNCHANGED <<tex, parent, nodes_scanned, bibitems, results>>
    /\ UNCHANGED <<component, uploadVars>>

\* Lines 52-53: after the last marker, the open item is finalized and the list is
\* returned.
Return ==
    /\ component = "extract"
    /\ xpc = "find"
    /\ m > Len(find_all(tex.body, 1))
    /\ LET st == finalize_bibitem(current_bibitem_label, bibitem_text, heap[bibitems])
       IN /\ current_bibitem_label' = st.label
          /\ bibitem_text' = st.text
          /\ heap' = [heap EXCEPT ![bibitems] = st.items]
          /\ results' = Append(results,
                [tex |-> tex, raised |-> None, msg |-> None, list |-> bibitems,
                 items |-> st.items])
    /\ xpc' = "idle"
    /\ UNCHANGED <<tex, m, parent, c, nodes_scanned, bibitems>>
    /\ UNCHANGED <<component, uploadVars>>

\* ------------------------------------------------------- specification

UploadIdle ==
    /\ pc = "loop"
    /\ i = 1
    /\ s2_id = None
    /\ entities_paths = <<>>
    /\ k = 1
    /\ entity_type = None
    /\ entities = <<>>
    /\ hue_location_infos = <<>>
    /\ localized_enitites = <<>>
    /\ item = <<>>
    /\ yielded = <<>>
    /\ log = <<>>
    /\ s2_files = <<>>
    /\ entity_files = <<>>
    /\ location_files = <<>>
    /\ joins = <<>>

\* BibitemExtractor.__init__ (lines 37-41)
ExtractorInit ==
    /\ tex = BadTex("EOFError")
    /\ xpc = "idle"
    /\ m = 1
    /\ parent = 0
    /\ c = 1
    /\ current_bibitem_label = None
    /\ bibitem_text = <<>>
    /\ nodes_scanned = {}
    /\ heap = <<<<>>>>
    /\ bibitems = 1
    /\ results = <<>>

\* An upload command made by make_upload_entities_command, before load is called.
InitUpload ==
    /\ UploadIdle
    /\ ExtractorInit
    /\ component = "upload"
    /\ DetectedEntityType \in DetectedEntityTypeArgs
    /\ arxiv_ids \in SeqUpTo(PaperIds, MaxPapers)

\* A new BibitemExtractor, before extract is called.
InitExtract ==
    /\ UploadIdle
    /\ ExtractorInit
    /\ component = "extract"
    /\ DetectedEntityType = [kind |-> "none", type |-> None, dict |-> NoDict]
    /\ arxiv_ids = <<>>

Init == InitUpload \/ InitExtract

NextUpload ==
    \/ NextPaper
    \/ GlobEntities
    \/ LoadEntitiesFile
    \/ LoadLocations
    \/ JoinAndYield

NextExtract ==
    \/ Extract
    \/ FindNext
    \/ ProcessContent
    \/ Return

Next == NextUpload \/ NextExtract

\* The upload command alone, the extractor alone, and either of the two.
SpecUpload == InitUpload /\ [][NextUpload]_vars
SpecExtract == InitExtract /\ [][NextExtract]_vars
Spec == Init /\ [][Next]_vars

\* ------------------------------------------------------- properties

Last(s) == s[Len(s)]

SameKey(x, y) == x.id_ = y.id_ /\ x.tex_path = y.tex_path

\* C1: when a result is yielded, its localized entities are the entities of the
\* paper, one for one and in the same order: none dropped, none duplicated, also
\* with two entities of one (id, tex_path) and with no location at all.
C1_OneLocalizedEntityPerEntity ==
    pc = "yielded" =>
        LET out == item[1].localized_entities IN
        /\ Len(out) = Len(entities)
        /\ \A j \in 1..Len(entities) : out[j].entity = entities[j]

C1_Witness ==
    /\ pc = "yielded"
    /\ Len(entities) = 2
    /\ SameKey(entities[1], entities[2])
    /\ hue_location_infos = <<>>
    /\ Len(item[1].localized_entities) = 2

\* C2: when a result is yielded, the locations of each localized entity are the
\* records of the location list with the entity's id and the entity's path, in the
\* order of the location list; other records are left out, and an entity that no
\* record matches has the empty list.
C2_LocationsAreTheMatchingRecords ==
    pc = "yielded" =>
        LET out == item[1].localized_entities IN
        \A j \in DOMAIN out :
            LET e == out[j].entity
                IsOfEntity(h) == h.entity_id = e.id_ /\ h.tex_path = e.tex_path
            IN out[j].locations = SelectSeq(hue_location_infos, IsOfEntity)

C2_Witness ==
    /\ pc = "yielded"
    /\ Len(hue_location_infos) = 2
    /\ \E j \in DOMAIN entities :
          LET e == entities[j] IN
          /\ hue_location_infos[1].entity_id = e.id_
          /\ hue_location_infos[1].tex_path # e.tex_path
          /\ hue_location_infos[2].entity_id # e.id_
          /\ hue_location_infos[2].tex_path = e.tex_path
          /\ item[1].localized_entities[j].locations = <<>>
    /\ \E j \in DOMAIN entities :
          item[1].localized_entities[j].locations = <<hue_location_infos[1]>>

\* The schema resolution of one file: a step of the loop over the entity files.
ResolveStep == component = "upload" /\ pc = "entities" /\ k' = k + 1
ResolvedFile == entities_paths[k]
NoSchemaSupplied == DetectedEntityType.kind = "none"
IsMapping == DetectedEntityType.kind = "dict"
InMapping(f) == IsMapping /\ f \in DOMAIN DetectedEntityType.dict
AllSchemas == EntityTypes \cup {SerializableEntity}

\* C6 as stated: a file name absent from the mapping, and no mapping supplied,
\* both give the generic schema and both record a warning.
C6_WarningInBothCases ==
    [][(ResolveStep /\ (NoSchemaSupplied \/ (IsMapping /\ ~InMapping(ResolvedFile))))
        => /\ entity_type' = SerializableEntity
           /\ log' = Append(log, NoEntityTypeWarning(ResolvedFile))]_vars

\* C6 amended: a file name absent from the supplied mapping gives the generic
\* schema and records a warning; with nothing supplied the generic schema is given
\* and no warning is recorded; every resolution gives a schema.
C6_WarningOnlyForMissingKey ==
    [][ResolveStep
        => /\ entity_type' \in AllSchemas
           /\ (IsMapping /\ ~InMapping(ResolvedFile))
                => /\ entity_type' = SerializableEntity
                   /\ log' = Append(log, NoEntityTypeWarning(ResolvedFile))
           /\ NoSchemaSupplied
                => /\ entity_type' = SerializableEntity
                   /\ log' = log]_vars

C6_Witness ==
    /\ pc = "entities"
    /\ k > 1
    /\ IsMapping
    /\ DetectedEntityType.dict # NoDict
    /\ ~InMapping(entities_paths[k - 1])
    /\ entity_type = SerializableEntity
    /\ log # <<>>
    /\ Last(log) = NoEntityTypeWarning(entities_paths[k - 1])

\* C7: with a mapping that holds the file name the schema mapped to that file
\* name is returned, with one schema supplied that schema is returned for every
\* file name, and neither records a warning.
C7_SuppliedSchemaIsReturned ==
    [][ResolveStep
        => /\ InMapping(ResolvedFile)
                => /\ entity_type' = DetectedEntityType.dict[ResolvedFile]
                   /\ log' = log
           /\ DetectedEntityType.kind = "type"
                => /\ entity_type' = DetectedEntityType.type
                   /\ log' = log]_vars

C7_Witness ==
    /\ pc = "entities"
    /\ k > 2
    /\ InMapping(entities_paths[1])
    /\ InMapping(entities_paths[2])
    /\ entity_type = DetectedEntityType.dict[entities_paths[2]]
    /\ entity_type # DetectedEntityType.dict[entities_paths[1]]
    /\ log = <<>>

\* The papers whose iteration is over, and what they must have given.
Finished == IF pc = "yielded" THEN i ELSE i - 1
HasS2Id(a) == a \in DOMAIN s2_files /\ s2_files[a] # NoFile

RECURSIVE ExpectedYields(_)
ExpectedYields(n) ==
    IF n = 0 THEN <<>>
    ELSE ExpectedYields(n - 1)
         \o (IF HasS2Id(arxiv_ids[n])
             THEN <<[arxiv_id |-> arxiv_ids[n], s2_id |-> s2_files[arxiv_ids[n]]]>>
             ELSE <<>>)

RECURSIVE ExpectedSkips(_)
ExpectedSkips(n) ==
    IF n = 0 THEN <<>>
    ELSE ExpectedSkips(n - 1)
         \o (IF HasS2Id(arxiv_ids[n]) THEN <<>> ELSE <<SkipWarning(arxiv_ids[n])>>)

IsSkipWarning(w) == w.msg = SkipWarning("").msg

\* C8: the results yielded so far are those of the papers with an s2_id file among
\* the papers visited, one each and in the order of the paper list; each paper
\* without the file has its warning in the log and none of its files is read;
\* while a paper is being loaded every paper before it is finished, and the result
\* the consumer holds is the result of the paper the loop is at.
C8_SkipsAndYieldsInOrder ==
    component = "upload" =>
        /\ Finished \in 0..Len(arxiv_ids)
        /\ yielded = ExpectedYields(Finished)
        /\ SelectSeq(log, IsSkipWarning) = ExpectedSkips(Finished)
        /\ \A a \in (DOMAIN entity_files) \cup (DOMAIN location_files) : HasS2Id(a)
        /\ pc = "done" => Finished = Len(arxiv_ids)
        /\ pc \in {"glob", "entities", "join"} => item = <<>> /\ HasS2Id(arxiv_ids[i])
        /\ pc = "yielded" =>
              /\ item[1].arxiv_id = arxiv_ids[i]
              /\ item[1].s2_id = s2_files[arxiv_ids[i]]
              /\ item[1].localized_entities = localized_enitites

C8_Witness ==
    /\ pc = "done"
    /\ Len(arxiv_ids) = 2
    /\ ~HasS2Id(arxiv_ids[1])
    /\ HasS2Id(arxiv_ids[2])
    /\ Len(yielded) = 1
    /\ yielded[1].arxiv_id = arxiv_ids[2]
    /\ log = <<SkipWarning(arxiv_ids[1])>>


\* The scan of a document, told from the document alone.
HasRequiredArg(args) == \E q \in DOMAIN args : args[q].type = "RArg"
FirstRequired(args) == args[Min({q \in DOMAIN args : args[q].type = "RArg"})].value
IsMarkerAt(d, j) == d[j].leaf.kind = "bibitem"
IsLabelledAt(d, j) == IsMarkerAt(d, j) /\ HasRequiredArg(d[j].leaf.args)

\* The numbers of a set in ascending order.
RECURSIVE Ascending(_)
Ascending(S) ==
    IF S = {} THEN <<>> ELSE <<Min(S)>> \o Ascending(S \ {Min(S)})

KeysAt(d, ps) == [q \in DOMAIN ps |-> FirstRequired(d[ps[q]].leaf.args)]

\* The labels of the labelled markers in document order.
DocOrderKeys(d) == KeysAt(d, Ascending({j \in DOMAIN d : IsLabelledAt(d, j)}))

\* The labels of the labelled markers block by block: the blocks in the order in
\* which the document-order search meets their first marker, the markers of one
\* block in document order.
BlockOrderKeys(d) ==
    LET IsFirstOfBlock(j) ==
            /\ IsMarkerAt(d, j)
            /\ \A q \in 1..(j - 1) : IsMarkerAt(d, q) => ParentOf(d, q) # ParentOf(d, j)
        firsts == Ascending({j \in DOMAIN d : IsFirstOfBlock(j)})
        KeysOfBlock(p) ==
            KeysAt(d, Ascending({j \in DOMAIN d : IsLabelledAt(d, j) /\ ParentOf(d, j) = p}))
    IN Concat([q \in DOMAIN firsts |-> KeysOfBlock(ParentOf(d, firsts[q]))])

OneBlock(d) ==
    \A a, b \in DOMAIN d :
        IsMarkerAt(d, a) /\ IsMarkerAt(d, b) => ParentOf(d, a) = ParentOf(d, b)

Keys(items) == [q \in DOMAIN items |-> items[q].key]

\* A text in which whitespace is single spaces between words only.
IsNormalized(t) ==
    /\ \A q \in DOMAIN t : t[q] # NL
    /\ \A q \in 1..(Len(t) - 1) : ~(t[q] = SP /\ t[q + 1] = SP)
    /\ t # <<>> => t[1] # SP /\ t[Len(t)] # SP

Returned(r) == results[r].raised = None
HasMarker(d) == \E j \in DOMAIN d : IsMarkerAt(d, j)

\* C3 as stated: every call that returns gives one Bibitem per labelled marker,
\* in document order, each text with its whitespace collapsed and stripped.
C3_ItemsInDocumentOrder ==
    \A r \in DOMAIN results :
        Returned(r) /\ HasMarker(results[r].tex.body) =>
            /\ Keys(results[r].items) = DocOrderKeys(results[r].tex.body)
            /\ \A q \in DOMAIN results[r].items : IsNormalized(results[r].items[q].text)

\* C3 amended: every call that returns gives one Bibitem per labelled marker,
\* block by block in the order in which the blocks are discovered and in document
\* order within a block (document order when all markers have one parent), each
\* text with its whitespace collapsed and stripped.
C3_ItemsInBlockOrder ==
    \A r \in DOMAIN results :
        Returned(r) /\ HasMarker(results[r].tex.body) =>
            /\ Keys(results[r].items) = BlockOrderKeys(results[r].tex.body)
            /\ OneBlock(results[r].tex.body) =>
                  Keys(results[r].items) = DocOrderKeys(results[r].tex.body)
            /\ \A q \in DOMAIN results[r].items : IsNormalized(results[r].items[q].text)

C3_Witness ==
    \E r \in DOMAIN results :
        /\ Returned(r)
        /\ Len(results[r].items) = 3
        /\ ~OneBlock(results[r].tex.body)
        /\ Keys(results[r].items) # DocOrderKeys(results[r].tex.body)
        /\ Keys(results[r].items) = BlockOrderKeys(results[r].tex.body)

\* The content a step of the scan is at, and the items emitted so far.
ScannedContent == Contents(tex.body, parent)[c]
ScannedText == content_text_of(ScannedContent)
Items == heap[bibitems]
LabelOpen == current_bibitem_label # None

\* The steps of the extractor, told by the position they leave and reach.
ScanStep == component = "extract" /\ xpc = "scan"
ReturnStep == component = "extract" /\ xpc = "find" /\ xpc' = "idle"
FailedCallStep ==
    component = "extract" /\ xpc = "idle" /\ Len(results') = Len(results) + 1

\* A paragraph break: a newline, spaces or nothing, and another newline.
ParagraphBreakAt(t, a) ==
    /\ t[a] = NL
    /\ \E b \in (a + 1)..Len(t) :
          t[b] = NL /\ \A q \in (a + 1)..(b - 1) : t[q] = SP
HasParagraphBreak(t) == \E a \in DOMAIN t : ParagraphBreakAt(t, a)
BeforeFirstBreak(t) ==
    SubSeq(t, 1, Min({a \in DOMAIN t : ParagraphBreakAt(t, a)}) - 1)

\* C4: a text with a paragraph break met while an item is open emits the item at
\* once, its text being the buffer and the part of the text before the first
\* break; text met while no item is open goes to no item and to no buffer, in the
\* same block or a later one, and the end of the call emits nothing for it.
C4_BreakEndsItemAndDropsTheRest ==
    [][/\ (ScanStep /\ ScannedContent.kind # "bibitem")
            => /\ (LabelOpen /\ ScannedText # NoString /\ HasParagraphBreak(ScannedText))
                    => /\ heap'[bibitems] =
                            Append(Items,
                                Bibitem(current_bibitem_label,
                                    clean_bibitem_text(
                                        bibitem_text \o BeforeFirstBreak(ScannedText))))
                       /\ current_bibitem_label' = None
                       /\ bibitem_text' = <<>>
               /\ ~LabelOpen
                    => /\ heap' = heap
                       /\ current_bibitem_label' = None
                       /\ bibitem_text = <<>> /\ bibitem_text' = <<>>
       /\ (ReturnStep /\ ~LabelOpen) => heap' = heap]_vars

\* After a marker, a text with a break and one more text: one item, its text the
\* word before the break, and nothing in the buffer.
C4_Witness ==
    /\ xpc = "find"
    /\ results = <<>>
    /\ LET cs == Contents(tex.body, parent) IN
       /\ Len(cs) = 3
       /\ cs[1].kind = "bibitem" /\ HasRequiredArg(cs[1].args)
       /\ cs[2].kind = "token" /\ HasParagraphBreak(cs[2].text)
       /\ Len(BeforeFirstBreak(cs[2].text)) < Len(cs[2].text) - 2
       /\ cs[3].kind = "token"
       /\ Items = <<Bibitem(FirstRequired(cs[1].args), BeforeFirstBreak(cs[2].text))>>
    /\ m > 1
    /\ ~LabelOpen
    /\ bibitem_text = <<>>

\* C5: a marker without a required argument opens no item: the item open before
\* it is emitted with the text of its buffer, the label is absent and the buffer
\* empty after it, and text met from then on goes to no item until a marker with a
\* required argument sets the label again.
C5_UnlabelledMarkerOpensNothing ==
    [][ScanStep
        => /\ (ScannedContent.kind = "bibitem" /\ ~HasRequiredArg(ScannedContent.args))
                => /\ current_bibitem_label' = None
                   /\ bibitem_text' = <<>>
                   /\ heap'[bibitems] =
                        IF LabelOpen
                        THEN Append(Items, Bibitem(current_bibitem_label,
                                                   clean_bibitem_text(bibitem_text)))
                        ELSE Items
           /\ (ScannedContent.kind = "bibitem" /\ HasRequiredArg(ScannedContent.args))
                => current_bibitem_label' = FirstRequired(ScannedContent.args)
           /\ (ScannedContent.kind # "bibitem" /\ ~LabelOpen)
                => /\ Len(heap'[bibitems]) = Len(Items)
                   /\ ~LabelOpen']_vars

\* After a labelled marker, an unlabelled marker and a text: the item of the
\* first marker alone, and nothing in the buffer.
C5_Witness ==
    /\ xpc = "find"
    /\ results = <<>>
    /\ LET cs == Contents(tex.body, parent) IN
       /\ Len(cs) = 3
       /\ cs[1].kind = "bibitem" /\ HasRequiredArg(cs[1].args)
       /\ cs[2].kind = "bibitem" /\ ~HasRequiredArg(cs[2].args)
       /\ cs[3].kind = "token"
       /\ Items = <<Bibitem(FirstRequired(cs[1].args), <<>>)>>
    /\ m > 1
    /\ ~LabelOpen
    /\ bibitem_text = <<>>

C10_ParseErrorAbortsTheCall ==
    [][(FailedCallStep \/ (component = "extract" /\ xpc = "idle" /\ ~tex'.ok))
        => /\ results' = Append(results,
                  [tex |-> tex', raised |-> "TexSoupParseError",
                   msg |-> tex'.failure, list |-> 0, items |-> <<>>])
           /\ xpc' = "idle"
           /\ UNCHANGED <<current_bibitem_label, bibitem_text, nodes_scanned>>
           /\ \A r \in DOMAIN heap : heap'[r] = heap[r]
           /\ heap'[bibitems'] = <<>>]_vars

C10_Witness ==
    /\ Len(results) = 2
    /\ Returned(1)
    /\ results[1].items # <<>>
    /\ results[2].raised = "TexSoupParseError"
    /\ results[2].msg \in ParserFailures
    /\ xpc = "idle"
    /\ heap[results[1].list] = results[1].items

\* The parents of the markers of a document, in the order in which the
\* document-order search meets their first marker.
DiscoveredParents(d) ==
    LET IsFirstOfBlock(j) ==
            /\ IsMarkerAt(d, j)
            /\ \A q \in 1..(j - 1) : IsMarkerAt(d, q) => ParentOf(d, q) # ParentOf(d, j)
        firsts == Ascending({j \in DOMAIN d : IsFirstOfBlock(j)})
    IN [q \in DOMAIN firsts |-> ParentOf(d, firsts[q])]

\* The contents from the q-th on, put through _process_content one by one.
RECURSIVE ScanFrom(_, _, _)
ScanFrom(contents, q, st) ==
    IF q > Len(contents) THEN st
    ELSE ScanFrom(contents, q + 1,
                  process_content(contents[q], st.label, st.text, st.items))

\* The items of one block scanned on its own: no item open before its first child,
\* and the item open after its last child emitted.
ItemsOfBlock(d, p) ==
    LET st == ScanFrom(Contents(d, p), 1, [label |-> None, text |-> <<>>, items |-> <<>>])
    IN finalize_bibitem(st.label, st.text, st.items).items

BlockwiseItems(d) ==
    LET ps == DiscoveredParents(d)
    IN Concat([q \in DOMAIN ps |-> ItemsOfBlock(d, ps[q])])

\* C11: when the first child of a block is about to be processed no item is open
\* and the buffer is empty (the item open after the last child of the block before
\* was emitted), and the items a call returns are those of its blocks each scanned
\* on its own: no item holds text of a block other than that of its marker.
C11_OpenItemFlushedAfterEachBlock ==
    /\ (component = "extract" /\ xpc = "scan" /\ c = 1)
          => (~LabelOpen /\ bibitem_text = <<>>)
    /\ \A r \in DOMAIN results :
          Returned(r) => results[r].items = BlockwiseItems(results[r].tex.body)

\* A returned item whose text holds text of a block other than that of its marker.
C11_TextOfLaterBlockInItem ==
    \E r \in DOMAIN results :
        /\ Returned(r)
        /\ Len(results[r].items) = Len(BlockwiseItems(results[r].tex.body))
        /\ \E q \in DOMAIN results[r].items :
              /\ results[r].items[q].key = BlockwiseItems(results[r].tex.body)[q].key
              /\ BlockwiseItems(results[r].tex.body)[q].text = <<>>
              /\ results[r].items[q].text # <<>>

\* The steps of the search for markers: a parent not scanned yet starts a scan, a
\* parent scanned before is passed over.
ScanStartStep == component = "extract" /\ xpc = "find" /\ xpc' = "scan"
SkipStep == component = "extract" /\ xpc = "find" /\ xpc' = "find" /\ m' = m + 1
FoundMarker == find_all(tex.body, 1)[m]

\* The parents scanned so far in the call under way.
ScannedInCall == {n \in nodes_scanned : n[1] = CallNo}

MarkersOf(d, p) == {j \in DOMAIN d : IsMarkerAt(d, j) /\ ParentOf(d, j) = p}

\* C12: in one call a scan starts only at the first marker child of a parent not
\* scanned yet, the parents are scanned in the order of their first markers, a scan
\* goes through the children once from the first to the last, a later marker child
\* of a scanned parent starts nothing, and at the return every parent of a marker
\* has been scanned and there is one Bibitem for each labelled marker.
C12_EachParentScannedOnce ==
    [][/\ ScanStartStep
            => /\ parent' = ParentOf(tex.body, FoundMarker)
               /\ FoundMarker = Min(MarkersOf(tex.body, parent'))
               /\ parent' = DiscoveredParents(tex.body)[Cardinality(ScannedInCall) + 1]
               /\ NodeId(CallNo, parent') \notin nodes_scanned
               /\ nodes_scanned' = nodes_scanned \cup {NodeId(CallNo, parent')}
               /\ c' = 1
       /\ SkipStep
            => /\ FoundMarker # Min(MarkersOf(tex.body, ParentOf(tex.body, FoundMarker)))
               /\ UNCHANGED <<nodes_scanned, heap, current_bibitem_label, bibitem_text>>
       /\ ScanStep
            => /\ UNCHANGED nodes_scanned
               /\ \/ c < Len(Contents(tex.body, parent)) /\ c' = c + 1 /\ xpc' = "scan"
                  \/ c = Len(Contents(tex.body, parent)) /\ xpc' = "find" /\ m' = m + 1
       /\ ReturnStep
            => /\ Cardinality(ScannedInCall) = Len(DiscoveredParents(tex.body))
               /\ Len(heap'[bibitems]) =
                    Cardinality({j \in DOMAIN tex.body : IsLabelledAt(tex.body, j)})
               /\ Keys(heap'[bibitems]) = BlockOrderKeys(tex.body)]_vars

\* A call has returned on a document of two blocks, one of them with two marker
\* children, with one item for each of the three markers.
C12_Witness ==
    /\ xpc = "idle"
    /\ Len(results) = 1
    /\ Returned(1)
    /\ Len(DiscoveredParents(tex.body)) = 2
    /\ \E p \in {0} \cup DOMAIN tex.body : Cardinality(MarkersOf(tex.body, p)) = 2
    /\ Len(results[1].items) = 3
    /\ Cardinality(nodes_scanned) = 2

\* C13: the buffer is empty whenever the label is absent; a step of the scan
\* changes the buffer to a text that is not empty only when the label is present
\* before it and after it; a marker, a text with a paragraph break met while an
\* item is open, and the end of the call (the places of _finalize_bibitem) leave
\* the buffer empty, and the last two leave the label absent.
C13_NoBufferWithoutLabel ==
    /\ [](~LabelOpen => bibitem_text = <<>>)
    /\ [][/\ (ScanStep /\ bibitem_text' # bibitem_text /\ bibitem_text' # <<>>)
               => /\ LabelOpen /\ LabelOpen'
                  /\ bibitem_text' = bibitem_text \o ScannedText
          /\ (ScanStep /\ ScannedContent.kind = "bibitem") => bibitem_text' = <<>>
          /\ (ScanStep /\ ScannedContent.kind # "bibitem" /\ LabelOpen
                /\ ScannedText # NoString /\ HasParagraphBreak(ScannedText))
               => (~LabelOpen' /\ bibitem_text' = <<>>)
          /\ ReturnStep => (~LabelOpen' /\ bibitem_text' = <<>>)]_vars

\* In a scan, after a marker without a label and a text: no label and an empty
\* buffer, while the text met was not empty.
C13_Witness ==
    /\ xpc = "scan"
    /\ c = 3
    /\ LET cs == Contents(tex.body, parent) IN
       /\ cs[1].kind = "bibitem" /\ ~HasRequiredArg(cs[1].args)
       /\ cs[2].kind = "token" /\ cs[2].text # <<>>
    /\ ~LabelOpen
    /\ bibitem_text = <<>>

\* The contents that have gone through _process_content in the call under way, in
\* the order of the scan.
ScannedSoFar ==
    LET ps == DiscoveredParents(tex.body)
        n == Cardinality(ScannedInCall)
        Full(b) == Concat([q \in 1..b |-> Contents(tex.body, ps[q])])
    IN IF xpc = "scan"
       THEN Full(n - 1) \o SubSeq(Contents(tex.body, parent), 1, c - 1)
       ELSE Full(n)

\* The text that follows a marker in a sequence of contents: the texts from the
\* q-th content on, up to the next marker or the first paragraph break.
RECURSIVE SegmentText(_, _)
SegmentText(seq, q) ==
    IF q > Len(seq) \/ seq[q].kind = "bibitem" THEN <<>>
    ELSE LET t == content_text_of(seq[q]) IN
         IF t = NoString THEN SegmentText(seq, q + 1)
         ELSE IF HasParagraphBreak(t) THEN BeforeFirstBreak(t)
         ELSE t \o SegmentText(seq, q + 1)

\* An item is open after a sequence of contents when no marker and no paragraph
\* break follows its last labelled marker.
RECURSIVE OpenAfter(_, _)
OpenAfter(seq, q) ==
    IF q > Len(seq) THEN TRUE
    ELSE IF seq[q].kind = "bibitem" THEN FALSE
    ELSE LET t == content_text_of(seq[q]) IN
         IF t # NoString /\ HasParagraphBreak(t) THEN FALSE
         ELSE OpenAfter(seq, q + 1)

LabelledIn(seq) ==
    Ascending({a \in DOMAIN seq : seq[a].kind = "bibitem" /\ HasRequiredArg(seq[a].args)})

\* C14: a marker met while an item is open appends that item, its text the cleaned
\* buffer, takes the new label and leaves the buffer empty; at every point of a
\* call the items emitted and the open item are those of the labelled markers
\* scanned so far, in the order of the scan, and the text of each is the text
\* between its own marker and the next marker (or the first paragraph break).
C14_MarkerEmitsOpenItemFirst ==
    /\ [][(ScanStep /\ ScannedContent.kind = "bibitem" /\ LabelOpen)
            => /\ heap'[bibitems] =
                    Append(Items, Bibitem(current_bibitem_label,
                                          clean_bibitem_text(bibitem_text)))
               /\ current_bibitem_label' = extract_label(ScannedContent.args)
               /\ bibitem_text' = <<>>]_vars
    /\ []((component = "extract" /\ xpc \in {"scan", "find"}) =>
            LET seq == ScannedSoFar
                ls == LabelledIn(seq)
                open == ls # <<>> /\ OpenAfter(seq, Last(ls) + 1)
            IN /\ LabelOpen = open
               /\ Len(Items) = Len(ls) - (IF open THEN 1 ELSE 0)
               /\ \A q \in DOMAIN Items :
                     Items[q] = Bibitem(FirstRequired(seq[ls[q]].args),
                                        clean_bibitem_text(SegmentText(seq, ls[q] + 1)))
               /\ open => /\ current_bibitem_label = FirstRequired(seq[Last(ls)].args)
                          /\ bibitem_text = SegmentText(seq, Last(ls) + 1))

\* A block of a marker, a text and a second marker has been scanned: the item of
\* the first marker is emitted with the text, the second is open with no text.
C14_Witness ==
    /\ xpc = "find"
    /\ m > 1
    /\ LET cs == Contents(tex.body, parent) IN
       /\ Len(cs) = 3
       /\ cs[1].kind = "bibitem" /\ HasRequiredArg(cs[1].args)
       /\ cs[2].kind = "token" /\ ~HasParagraphBreak(cs[2].text)
       /\ cs[3].kind = "bibitem" /\ HasRequiredArg(cs[3].args)
       /\ FirstRequired(cs[3].args) # FirstRequired(cs[1].args)
       /\ Items = <<Bibitem(FirstRequired(cs[1].args), clean_bibitem_text(cs[2].text))>>
       /\ Items[1].text # <<>>
       /\ current_bibitem_label = FirstRequired(cs[3].args)
    /\ bibitem_text = <<>>

\* The items of a document on an extractor that has made no call before: its
\* blocks in the order of discovery go through _process_content, then the end of
\* the call.
ItemsOfDoc(d) ==
    LET ps == DiscoveredParents(d)
        all == Concat([q \in DOMAIN ps |-> Contents(d, ps[q])])
        st == ScanFrom(all, 1, [label |-> None, text |-> <<>>, items |-> <<>>])
    IN finalize_bibitem(st.label, st.text, st.items).items

\* A call starts: extract leaves the idle extractor for the search.
CallStep == component = "extract" /\ xpc = "idle" /\ xpc' = "find"

\* C15: on one extractor used for several calls, between calls the label is absent
\* and the buffer empty; the list a call returns is a list object of its own, it
\* holds the items a new extractor returns for the call's document, and it stays
\* as it was returned whatever calls follow; a call starts with a new empty list,
\* no label and an empty buffer; and the set of scanned parents never loses a node.
C15_CallsShareOnlyScannedParents ==
    /\ []((component = "extract" /\ xpc = "idle") =>
             /\ ~LabelOpen
             /\ bibitem_text = <<>>
             /\ \A r \in DOMAIN results :
                   Returned(r) =>
                       /\ results[r].items = ItemsOfDoc(results[r].tex.body)
                       /\ heap[results[r].list] = results[r].items
                       /\ \A r2 \in DOMAIN results :
                             (Returned(r2) /\ r2 # r) => results[r2].list # results[r].list)
    /\ [][/\ ReturnStep => (~LabelOpen' /\ bibitem_text' = <<>>)
          /\ CallStep => /\ bibitems' \notin DOMAIN heap
                         /\ heap'[bibitems'] = <<>>
                         /\ ~LabelOpen' /\ bibitem_text' = <<>>
                         /\ \A r \in DOMAIN heap : heap'[r] = heap[r]
          /\ (component = "extract") =>
                /\ nodes_scanned \subseteq nodes_scanned'
                /\ \A r \in DOMAIN results :
                      Returned(r) => heap'[results[r].list] = heap[results[r].list]]_vars

\* Two calls on one extractor have returned, on two documents: each list holds
\* the items of its own document, and the parents of both calls are recorded.
C15_Witness ==
    /\ xpc = "idle"
    /\ Len(results) = 2
    /\ Returned(1) /\ Returned(2)
    /\ results[1].tex # results[2].tex
    /\ Len(results[1].items) = 2
    /\ results[1].items[2].text # <<>>
    /\ results[2].items # <<>>
    /\ heap[results[1].list] = results[1].items
    /\ heap[results[2].list] = results[2].items
    /\ \E n \in nodes_scanned : n[1] = 1
    /\ \E n \in nodes_scanned : n[1] = 2

====
